---- MODULE Spec2Model ----
(***************************************************************************)
(* Message window of a Thread (addons/mail/static/src/core/common/        *)
(* thread_model.js): the paginated fetches (fetchMessages,                *)
(* fetchMoreMessages, fetchNewMessages, loadAround), the transient merge, *)
(* the optimistic post, markAsRead, and the remote log, bus and store     *)
(* they talk to.                                                           *)
(*                                                                         *)
(* Message ids.  The code tells a persisted message from a local one by   *)
(* Number.isInteger(id): a persisted message has an integer id, a         *)
(* temporary or transient message a non-integer one.  The model counts    *)
(* ids in half units: the remote log assigns the even numbers 2, 4, 6...  *)
(* (the integer ids), an odd number is a non-integer id.  Temporary ids   *)
(* are the negative odd numbers -1, -3, ... .  0 stands for undefined.    *)
(***************************************************************************)
EXTENDS Integers, Sequences, FiniteSets, TLC

\* ------------------------------------------------------------------ bounds
\* page size of a paginated read (store.FETCH_LIMIT), scaled down
FETCH_LIMIT == 3
\* number of messages of the remote log when the thread is materialized: a log
\* of several pages, or a log shorter than one page
InitLog == 6
SmallLog == 2
\* the remote log stops growing at this many assigned ids
MaxLog == 8
\* the remote log of a thread that is only polled stops growing at this many ids
PollLog == 10
\* posts issued by the user
MaxPosts == 2
\* transient messages received
MaxTransient == 1
\* messages deleted from the log
MaxDeletes == 1
\* paginated reads in flight at once that the model can represent
MaxInflight == 2
\* posts, transient messages, deletions, messages of other users and transport
\* failures in one run
MaxEnv == 2
\* fetchMoreMessages is not called on a window longer than this
MaxWindow == 8
\* markAsRead calls issued by the user
MaxMarks == 2
\* members of a channel besides self
MaxMembers == 3

Undefined == 0

VARIABLES
    model,                \* Thread.model
    hasId,                \* Thread.id is set
    hasSelfMember,        \* Thread.selfMember is set
    seen_message_id,      \* selfMember.seen_message_id (an id, or Undefined)
    messages,             \* Thread.messages: the window, oldest first
    pendingNewMessages,   \* Thread.pendingNewMessages
    transientMessages,    \* Thread.transientMessages
    loadOlder,            \* Thread.loadOlder (hasOlder)
    loadNewer,            \* Thread.loadNewer (hasNewer)
    isLoaded,             \* Thread.isLoaded
    status,               \* Thread.status
    hasLoadingFailed,     \* Thread.hasLoadingFailed
    calls,                \* fetch operations suspended on their paginated read
    posts,                \* post operations suspended on the submission
    nextTemporaryId,      \* the store's temporary id generator
    log,                  \* the remote log: persisted ids of the thread
    lastLogId,            \* the newest id the log has assigned
    selfAuthored,         \* ids of the log whose author is the current user
    deletes,              \* number of messages deleted so far
    failures,             \* number of transport failures so far
    outcome,              \* how the operation resumed by the last step ended
    allMessages,          \* Thread.allMessages: the store's messages of the thread
    deferred,             \* markAsRead retries waiting on isLoadedDeferred
    timers,               \* markAsRead retries waiting on their setTimeout
    marks,                \* mark_as_read and mark_all_as_read calls in flight
    markCalls,            \* number of markAsRead calls of the user so far
    message_needaction_counter, \* Thread.message_needaction_counter
    hasSeenFeature,       \* Thread.hasSeenFeature
    channelMembers,       \* Thread.channelMembers: persona and seen_message_id
    lastMessageSeenByAllId  \* Thread.lastMessageSeenByAllId

vars == <<model, hasId, hasSelfMember, seen_message_id, messages,
          pendingNewMessages, transientMessages, loadOlder, loadNewer, isLoaded,
          status, hasLoadingFailed, calls, posts, nextTemporaryId, log,
          lastLogId, selfAuthored, deletes, failures, outcome, allMessages,
          deferred, timers, marks, markCalls, message_needaction_counter,
          hasSeenFeature, channelMembers, lastMessageSeenByAllId>>

\* -------------------------------------------------------- JavaScript arrays
Min2(a, b) == IF a < b THEN a ELSE b
Max2(a, b) == IF a > b THEN a ELSE b

SeqToSet(s) == {s[i] : i \in 1..Len(s)}

\* Array.prototype.reverse
Reverse(s) == [i \in 1..Len(s) |-> s[Len(s) + 1 - i]]

\* Array.prototype.includes / some(({id}) => id === x)
Includes(s, x) == \E i \in 1..Len(s) : s[i] = x

\* Array.prototype.indexOf, 0-based, -1 when absent
IndexOf(s, x) ==
    IF Includes(s, x)
    THEN (CHOOSE i \in 1..Len(s) : s[i] = x /\ \A j \in 1..(i - 1) : s[j] # x) - 1
    ELSE -1

\* Array.prototype.splice(start, deleteCount, ...items), 0-based start,
\* a negative start counts from the end
Splice(s, start, deleteCount, items) ==
    LET from == IF start < 0 THEN Max2(Len(s) + start, 0) ELSE Min2(start, Len(s))
        del == Min2(Max2(deleteCount, 0), Len(s) - from)
    IN SubSeq(s, 1, from) \o items \o SubSeq(s, from + del + 1, Len(s))

\* Array.prototype.filter with the predicate "id is not in known"
FilterUnknown(s, known) == SelectSeq(s, LAMBDA id : id \notin known)

\* Array.prototype.sort((m1, m2) => m1.id - m2.id): stable, ascending
RECURSIVE InsertSorted(_, _)
InsertSorted(s, x) ==
    IF s = <<>> THEN <<x>>
    ELSE IF x < Head(s) THEN <<x>> \o s
    ELSE <<Head(s)>> \o InsertSorted(Tail(s), x)

RECURSIVE SortById(_)
SortById(s) ==
    IF s = <<>> THEN <<>>
    ELSE InsertSorted(SortById(SubSeq(s, 1, Len(s) - 1)), s[Len(s)])

\* a < b and a > b of JavaScript on ids, false when either side is undefined
Lt(a, b) == a # Undefined /\ b # Undefined /\ a < b
Gt(a, b) == a # Undefined /\ b # Undefined /\ a > b

\* Number.isInteger(id)
IsInteger(id) == id # Undefined /\ id % 2 = 0

\* ------------------------------------------------------------ the remote log
RECURSIVE Ascending(_)
Ascending(S) ==
    IF S = {} THEN <<>>
    ELSE LET m == CHOOSE x \in S : \A y \in S : x <= y
         IN <<m>> \o Ascending(S \ {m})

Descending(S) == Reverse(Ascending(S))

Take(s, n) == SubSeq(s, 1, Min2(n, Len(s)))

\* The paginated read of the remote log: at most limit messages, newest first.
\* around: limit/2 messages up to the target and limit/2 messages after it;
\* after: the oldest messages newer than the anchor; before: the newest
\* messages older than the anchor; no anchor: the newest messages.
MessageFetch(after, around, before, limit) ==
    IF around # Undefined
    THEN LET upTo == Take(Descending({m \in log : m <= around}), limit \div 2)
             past == Take(Ascending({m \in log : m > around}), limit \div 2)
         IN Reverse(past) \o upTo
    ELSE LET domain == {m \in log : /\ (before # Undefined => m < before)
                                    /\ (after # Undefined => m > after)}
         IN IF after # Undefined
            THEN Reverse(Take(Ascending(domain), limit))
            ELSE Take(Descending(domain), limit)

\* ------------------------------------------------------------ Thread getters
\* message.is_transient: the positive non-integer ids
IsTransient(id) == id > 0 /\ id % 2 = 1

\* get oldestPersistentMessage: messages.find((msg) => Number.isInteger(msg.id))
OldestPersistentMessage(msgs) ==
    IF \E i \in 1..Len(msgs) : IsInteger(msgs[i])
    THEN msgs[CHOOSE i \in 1..Len(msgs) :
                  IsInteger(msgs[i]) /\ \A j \in 1..(i - 1) : ~IsInteger(msgs[j])]
    ELSE Undefined

\* get newestPersistentMessage: messages.findLast((msg) => Number.isInteger(msg.id))
NewestPersistentMessage(msgs) ==
    IF \E i \in 1..Len(msgs) : IsInteger(msgs[i])
    THEN msgs[CHOOSE i \in 1..Len(msgs) :
                  IsInteger(msgs[i]) /\ \A j \in (i + 1)..Len(msgs) : ~IsInteger(msgs[j])]
    ELSE Undefined

\* get persistentMessages: messages.filter((message) => !message.is_transient)
PersistentMessages(msgs) == SelectSeq(msgs, LAMBDA id : ~IsTransient(id))

\* ["mail.box", "discuss.channel"].includes(this.model)
IsChannelOrMailbox == model \in {"mail.box", "discuss.channel"}

\* ------------------------------------------------------------ transient merge
\* `message.id < this.oldestPersistentMessage` and `message.id >
\* this.newestPersistentMessage` compare a number with a Message record (or
\* with undefined): JavaScript converts the record to NaN and both are false.
NumberLtRecord(id, record) == FALSE
NumberGtRecord(id, record) == FALSE

\* messages.findIndex((msg) => msg.id > id), 0-based, -1 when there is none
FindIndexGreater(msgs, id) ==
    IF \E i \in 1..Len(msgs) : msgs[i] > id
    THEN (CHOOSE i \in 1..Len(msgs) :
              msgs[i] > id /\ \A j \in 1..(i - 1) : ~(msgs[j] > id)) - 1
    ELSE -1

\* one turn of the loop of _enrichMessagesWithTransient
EnrichOne(msgs, message, older, newer) ==
    IF NumberLtRecord(message, OldestPersistentMessage(msgs)) /\ ~older
    THEN <<message>> \o msgs
    ELSE IF NumberGtRecord(message, NewestPersistentMessage(msgs)) /\ ~newer
    THEN Append(msgs, message)
    ELSE LET found == FindIndexGreater(msgs, message)
             afterIndex == IF found = -1 THEN Len(msgs) + 1 ELSE found
         IN Splice(msgs, afterIndex - 1, 0, <<message>>)

RECURSIVE EnrichFrom(_, _, _, _)
EnrichFrom(msgs, transients, older, newer) ==
    IF transients = <<>> THEN msgs
    ELSE EnrichFrom(EnrichOne(msgs, Head(transients), older, newer),
                    Tail(transients), older, newer)

\* _enrichMessagesWithTransient on a window and the flags just assigned
EnrichMessagesWithTransient(msgs, older, newer) ==
    EnrichFrom(msgs, transientMessages, older, newer)

\* ------------------------------------------------------------ fetchMessages
\* limit of the read: !around && around !== 0 ? FETCH_LIMIT : FETCH_LIMIT * 2
FetchLimit(around) == IF around = Undefined THEN FETCH_LIMIT ELSE FETCH_LIMIT * 2

\* the early return of fetchMessages: no route to read from
HasNoRoute == ~IsChannelOrMailbox /\ ~hasId

\* a fetch operation suspended at `await rpc(...)` in fetchMessages; once the
\* read is answered, reply is the page and top the newest id the log then held
Call(op, epoch, after, around, before) ==
    [op |-> op, epoch |-> epoch, after |-> after, around |-> around,
     before |-> before, state |-> "sent", reply |-> <<>>, top |-> Undefined]

\* outcome: the operation the last step resumed (op, and its call or post),
\* how it ended for its caller (result: "ok", or "error" when it threw), the
\* path it took and the ids of its page the window already held (known);
\* NoOutcome when the step resumed no operation
NoCall == Call("-", "-", Undefined, Undefined, Undefined)
NoPost == [temporary_id |-> Undefined, tmpMsg |-> Undefined, state |-> "-",
           id |-> Undefined, pushed |-> FALSE]
NoOutcome == [op |-> "-", result |-> "-", path |-> "-", call |-> NoCall,
              post |-> NoPost, known |-> {}]
\* an operation that would let the failure of its read reach its caller
FetchOutcomeRaising(c, result, path) ==
    [op |-> c.op, result |-> IF path = "failed" THEN "error" ELSE result,
     path |-> path, call |-> c, post |-> NoPost,
     known |-> SeqToSet(c.reply) \cap SeqToSet(messages)]

FetchOutcome(c, result, path) ==
    [op |-> c.op, result |-> result, path |-> path, call |-> c, post |-> NoPost,
     known |-> SeqToSet(c.reply) \cap SeqToSet(messages)]
\* a post whose failure would not reach its caller
PostOutcomeSwallowed(p, result, path) ==
    [op |-> "post", result |-> "ok", path |-> path, call |-> NoCall, post |-> p,
     known |-> {}]
PostOutcome(p, result, path) ==
    [op |-> "post", result |-> result, path |-> path, call |-> NoCall, post |-> p,
     known |-> {}]

\* what the run has spent of MaxEnv: posts, transient messages, deletions,
\* transport failures, the messages other users have added to the log and the
\* needaction messages that are left
EnvEvents ==
    nextTemporaryId + Len(transientMessages) + deletes + failures
    + (((lastLogId \div 2) - InitLog) - Cardinality(selfAuthored))
    + message_needaction_counter

\* what the operations leave alone
UNCHANGED_server ==
    UNCHANGED <<log, lastLogId, selfAuthored, deletes, failures>>
UNCHANGED_thread ==
    UNCHANGED <<model, hasId, hasSelfMember, hasSeenFeature, channelMembers,
                lastMessageSeenByAllId>>
UNCHANGED_read == UNCHANGED <<marks, markCalls, message_needaction_counter>>
UNCHANGED_deferred == UNCHANGED <<deferred, timers>>

\* a resolution of isLoadedDeferred that would drop the retries waiting on it
ResolveDeferredLosing ==
    /\ timers' = timers
    /\ deferred' = 0

\* isLoaded is assigned true: its onUpdate resolves isLoadedDeferred, and every
\* retry waiting on it goes on to its setTimeout
ResolveDeferred ==
    IF isLoaded THEN UNCHANGED_deferred
    ELSE /\ timers' = timers + deferred
         /\ deferred' = 0
UNCHANGED_post == UNCHANGED <<posts, nextTemporaryId, seen_message_id>>

\* a call rejected by its guard: it returns at once and touches nothing
Rejected(op) ==
    /\ outcome' = NoOutcome
    /\ UNCHANGED <<messages, pendingNewMessages, transientMessages, loadOlder,
                   loadNewer, isLoaded, status, hasLoadingFailed, calls>>
    /\ UNCHANGED_post /\ UNCHANGED_thread /\ UNCHANGED_read /\ UNCHANGED_server
    /\ UNCHANGED <<allMessages, deferred, timers>>

\* the remote log answers a paginated read, newest message first
ServerRead(c) ==
    /\ c.state = "sent"
    /\ calls' = (calls \ {c}) \cup
          {[c EXCEPT !.state = "answered",
                     !.reply = MessageFetch(c.after, c.around, c.before,
                                            FetchLimit(c.around)),
                     !.top = IF log = {} THEN Undefined
                             ELSE CHOOSE m \in log : \A n \in log : n <= m]}
    /\ outcome' = NoOutcome
    /\ UNCHANGED <<messages, pendingNewMessages, transientMessages, loadOlder,
                   loadNewer, isLoaded, status, hasLoadingFailed>>
    /\ UNCHANGED_post /\ UNCHANGED_thread /\ UNCHANGED_read /\ UNCHANGED_server
    /\ UNCHANGED <<allMessages, deferred, timers>>

\* the paginated read fails in the transport
ServerFail(c) ==
    /\ c.state = "sent"
    /\ EnvEvents < MaxEnv
    /\ failures' = failures + 1
    /\ calls' = (calls \ {c}) \cup {[c EXCEPT !.state = "failed"]}
    /\ outcome' = NoOutcome
    /\ UNCHANGED <<messages, pendingNewMessages, transientMessages, loadOlder,
                   loadNewer, isLoaded, status, hasLoadingFailed>>
    /\ UNCHANGED <<log, lastLogId, selfAuthored, deletes>>
    /\ UNCHANGED_post /\ UNCHANGED_thread /\ UNCHANGED_read
    /\ UNCHANGED <<allMessages, deferred, timers>>

\* ------------------------------------------------------------ fetchMoreMessages
\* a guard that would not look at status: what fetchMoreMessages must not be
FetchMoreRejectedIgnoringStatus(epoch) ==
    \/ (epoch = "older" /\ ~loadOlder)
    \/ (epoch = "newer" /\ ~loadNewer)

\* the guard of fetchMoreMessages
FetchMoreRejected(epoch) ==
    \/ status = "loading"
    \/ (epoch = "older" /\ ~loadOlder)
    \/ (epoch = "newer" /\ ~loadNewer)

\* a fetchMoreMessages that would never look for its anchor
AnchorGoneNever(after, before) == FALSE

\* the anchor of the read is no longer in the window
AnchorGone(after, before) ==
    \/ (after # Undefined /\ ~Includes(messages, after))
    \/ (before # Undefined /\ ~Includes(messages, before))

\* a merge that would lose the oldest unknown message of the page
MessagesToAddButOldest(fetched, alreadyKnownMessages) ==
    LET unknown == FilterUnknown(fetched, alreadyKnownMessages)
    IN IF Len(unknown) = 0 THEN unknown ELSE Tail(unknown)

\* a merge that would not deduplicate the page against the window
MessagesToAddAll(fetched, alreadyKnownMessages) == fetched

\* fetched.filter((message) => !alreadyKnownMessages.has(message.id))
MessagesToAdd(fetched, alreadyKnownMessages) ==
    FilterUnknown(fetched, alreadyKnownMessages)

\* pendingNewMessages.filter(({ id }) => !alreadyKnownMessages.has(id))
MissingMessages(alreadyKnownMessages) ==
    FilterUnknown(pendingNewMessages, alreadyKnownMessages)

\* a flag that would also be cleared by a full page
MoreFlagFullPageEnds(length, flag) ==
    IF length <= FETCH_LIMIT THEN FALSE ELSE flag

\* the flag of the fetched direction after a page of the given length
MoreFlag(length, flag) == IF length < FETCH_LIMIT THEN FALSE ELSE flag

\* the body of the try block of fetchMoreMessages once the read has returned
MoreMerge(epoch, after, before, fetched) ==
    LET alreadyKnownMessages == SeqToSet(messages)
        messagesToAdd == MessagesToAdd(fetched, alreadyKnownMessages)
        added == IF epoch = "older" THEN messagesToAdd \o messages
                 ELSE messages \o messagesToAdd
        older == IF epoch = "older" THEN MoreFlag(Len(fetched), loadOlder)
                 ELSE loadOlder
        newer == IF epoch = "newer" THEN MoreFlag(Len(fetched), loadNewer)
                 ELSE loadNewer
        missingMessages == MissingMessages(alreadyKnownMessages)
        drained == IF /\ Len(fetched) < FETCH_LIMIT
                      /\ epoch = "newer"
                      /\ Len(missingMessages) > 0
                   THEN SortById(added \o missingMessages)
                   ELSE added
    IN IF AnchorGone(after, before)
       THEN [messages |-> messages, loadOlder |-> loadOlder,
             loadNewer |-> loadNewer, pending |-> pendingNewMessages,
             path |-> "aborted"]
       ELSE [messages |-> EnrichMessagesWithTransient(drained, older, newer),
             loadOlder |-> older, loadNewer |-> newer, pending |-> <<>>,
             path |-> "merged"]

\* ------------------------------------------------------------ fetchNewMessages
\* a guard that would let a loaded channel fetch again
FetchNewRejectedOnlyLoading == status = "loading"

\* the guard of fetchNewMessages
FetchNewRejected == status = "loading" \/ (isLoaded /\ IsChannelOrMailbox)

\* the filter of fetchNewMessages: unknown, and outside the covered range
NewFilter(id, alreadyKnownMessages) ==
    /\ id \notin alreadyKnownMessages
    /\ \/ Len(PersistentMessages(messages)) = 0
       \/ id < OldestPersistentMessage(messages)
       \/ id > NewestPersistentMessage(messages)

\* the filter reads `.id` of oldestPersistentMessage: a TypeError when the
\* window holds a non-transient message (a temporary one) but no persisted one
NewFilterThrows(fetched, alreadyKnownMessages) ==
    \E i \in 1..Len(fetched) :
        /\ fetched[i] \notin alreadyKnownMessages
        /\ Len(PersistentMessages(messages)) # 0
        /\ OldestPersistentMessage(messages) = Undefined

\* loadOlder as assigned at the end of fetchNewMessages
NewOlderFlag(after, length) ==
    IF after = Undefined /\ length = FETCH_LIMIT THEN TRUE
    ELSE IF after = Undefined /\ length # FETCH_LIMIT THEN FALSE
    ELSE loadOlder

\* the body of the try block of fetchNewMessages once the read has returned
NewMerge(after, fetched) ==
    LET afterIndex == IndexOf(messages, after)
        startIndex == IF after = Undefined THEN 0 ELSE afterIndex + 1
        alreadyKnownMessages == SeqToSet(messages)
        filtered == SelectSeq(fetched,
                              LAMBDA id : NewFilter(id, alreadyKnownMessages))
    IN IF after # Undefined /\ afterIndex = -1
       THEN [messages |-> messages, loadOlder |-> loadOlder,
             loadNewer |-> loadNewer, pending |-> pendingNewMessages,
             path |-> "aborted"]
       ELSE IF NewFilterThrows(fetched, alreadyKnownMessages)
       THEN [messages |-> messages, loadOlder |-> loadOlder,
             loadNewer |-> loadNewer, pending |-> pendingNewMessages,
             path |-> "threw"]
       ELSE [messages |-> Splice(messages, startIndex, 0, filtered),
             loadOlder |-> NewOlderFlag(after, Len(fetched)),
             loadNewer |-> loadNewer, pending |-> pendingNewMessages,
             path |-> "merged"]

\* ------------------------------------------------------------ loadAround
\* the guard of loadAround
LoadAroundRejected(messageId) ==
    status = "loading" \/ (isLoaded /\ Includes(messages, messageId))

\* a loadAround that would leave loadOlder true whatever the page
AroundOlderFlagAlways(messageId, fetched) == TRUE

\* loadOlder after loadAround: true, narrowed when the page is short
AroundOlderFlag(messageId, fetched) ==
    LET limit == FetchLimit(messageId)
        olderMessagesCount ==
            Cardinality({i \in 1..Len(fetched) : Lt(fetched[i], messageId)})
    IN ~(Len(fetched) < limit /\ 2 * olderMessagesCount < limit - 2)

\* a loadAround that would not narrow loadNewer on a short page
AroundNewerFlagUnnarrowed(messageId, fetched) == messageId # Undefined

\* loadNewer after loadAround: messageId !== undefined, narrowed likewise
AroundNewerFlag(messageId, fetched) ==
    LET limit == FetchLimit(messageId)
        newerMessagesCount ==
            Cardinality({i \in 1..Len(fetched) : Gt(fetched[i], messageId)})
    IN /\ messageId # Undefined
       /\ ~(Len(fetched) < limit /\ 2 * newerMessagesCount < limit)

\* a loadAround that would add its page to the window instead of replacing it
AroundMergeKeeping(messageId, fetched) ==
    LET older == AroundOlderFlag(messageId, fetched)
        newer == AroundNewerFlag(messageId, fetched)
    IN [messages |-> EnrichMessagesWithTransient(
                         messages \o FilterUnknown(fetched, SeqToSet(messages)),
                         older, newer),
        loadOlder |-> older, loadNewer |-> newer, pending |-> pendingNewMessages,
        path |-> "merged"]

\* the body of the try block of loadAround once the read has returned
AroundMerge(messageId, fetched) ==
    LET older == AroundOlderFlag(messageId, fetched)
        newer == AroundNewerFlag(messageId, fetched)
    IN [messages |-> EnrichMessagesWithTransient(fetched, older, newer),
        loadOlder |-> older, loadNewer |-> newer, pending |-> pendingNewMessages,
        path |-> "merged"]

\* ------------------------------------------------------------ the operations
\* the continuation of the operation c after `await this.fetchMessages(...)`
Merge(c, fetched) ==
    IF c.op = "fetchMoreMessages"
    THEN MoreMerge(c.epoch, c.after, c.before, fetched)
    ELSE IF c.op = "fetchNewMessages" THEN NewMerge(c.after, fetched)
    ELSE AroundMerge(c.around, fetched)

\* a fetchMessages that would leave status as it is
StatusAfterReadStuck == "loading"

\* status when fetchMessages has returned through its try/finally
StatusAfterRead == "ready"

\* fetchMessages found no route: status is "loading", isLoaded is set, the
\* result is empty and the calling operation goes on at once
RunWithoutRoute(c) ==
    LET r == Merge(c, <<>>)
    IN /\ status' = "loading"
       /\ isLoaded' = TRUE
       /\ messages' = r.messages
       /\ loadOlder' = r.loadOlder
       /\ loadNewer' = r.loadNewer
       /\ pendingNewMessages' = IF c.op = "fetchMoreMessages" THEN r.pending
                                ELSE pendingNewMessages
       /\ outcome' = NoOutcome
       /\ ResolveDeferred
       /\ UNCHANGED <<transientMessages, hasLoadingFailed, calls>>

\* fetchMessages sends the read and the operation is suspended on it
Suspend(c, loaded) ==
    /\ Cardinality(calls) < MaxInflight
    /\ status' = "loading"
    /\ isLoaded' = loaded
    /\ calls' = calls \cup {c}
    /\ outcome' = NoOutcome
    /\ UNCHANGED_deferred
    /\ UNCHANGED <<messages, pendingNewMessages, transientMessages, loadOlder,
                   loadNewer, hasLoadingFailed>>

Start(c, loaded) ==
    /\ IF HasNoRoute THEN RunWithoutRoute(c) ELSE Suspend(c, loaded)
    /\ UNCHANGED_post /\ UNCHANGED_thread /\ UNCHANGED_read /\ UNCHANGED_server
    /\ UNCHANGED allMessages

FetchMoreMessages(epoch) ==
    IF FetchMoreRejected(epoch) THEN Rejected("fetchMoreMessages")
    ELSE /\ Len(messages) <= MaxWindow
         /\ Start(Call("fetchMoreMessages", epoch,
                         IF epoch = "newer"
                         THEN NewestPersistentMessage(messages) ELSE Undefined,
                         Undefined,
                         IF epoch = "older"
                         THEN OldestPersistentMessage(messages) ELSE Undefined),
                    isLoaded)

FetchNewMessages ==
    IF FetchNewRejected THEN Rejected("fetchNewMessages")
    ELSE Start(Call("fetchNewMessages", "-",
                    IF isLoaded THEN NewestPersistentMessage(messages)
                    ELSE Undefined,
                    Undefined, Undefined),
               isLoaded)

\* a loadAround that would not clear isLoaded before its read
LoadAroundKeepingLoaded(messageId) ==
    IF LoadAroundRejected(messageId) THEN Rejected("loadAround")
    ELSE Start(Call("loadAround", "-", Undefined, messageId, Undefined),
               isLoaded)

LoadAround(messageId) ==
    IF LoadAroundRejected(messageId) THEN Rejected("loadAround")
    ELSE Start(Call("loadAround", "-", Undefined, messageId, Undefined), FALSE)

\* a fetchMessages that would clear hasLoadingFailed when its read succeeds
LoadingFailedAfterLast(failed) == failed

\* hasLoadingFailed when fetchMessages ends: set in its catch, else untouched
LoadingFailedAfter(failed) == failed \/ hasLoadingFailed

\* the read of the operation c returns: fetchMessages ends, the operation merges
FetchReturn(c) ==
    /\ c.state = "answered"
    /\ LET r == Merge(c, Reverse(c.reply))
       IN /\ messages' = r.messages
          /\ loadOlder' = r.loadOlder
          /\ loadNewer' = r.loadNewer
          /\ pendingNewMessages' = r.pending
          /\ outcome' = FetchOutcome(c, "ok", r.path)
    /\ isLoaded' = TRUE
    /\ status' = StatusAfterRead
    /\ calls' = calls \ {c}
    /\ hasLoadingFailed' = LoadingFailedAfter(FALSE)
    /\ UNCHANGED transientMessages
    /\ UNCHANGED_post /\ UNCHANGED_thread /\ UNCHANGED_read /\ UNCHANGED_server
    /\ allMessages' = allMessages \cup SeqToSet(c.reply)
    /\ ResolveDeferred

\* the read of the operation c throws: fetchMessages rethrows, the operation
\* catches ("handled in fetchMessages") and ends
FetchThrow(c) ==
    /\ c.state = "failed"
    /\ hasLoadingFailed' = LoadingFailedAfter(TRUE)
    /\ status' = StatusAfterRead
    /\ pendingNewMessages' = IF c.op = "fetchMoreMessages" THEN <<>>
                             ELSE pendingNewMessages
    /\ calls' = calls \ {c}
    /\ outcome' = FetchOutcome(c, "ok", "failed")
    /\ UNCHANGED <<messages, transientMessages, loadOlder, loadNewer, isLoaded>>
    /\ UNCHANGED_post /\ UNCHANGED_thread /\ UNCHANGED_read /\ UNCHANGED_server
    /\ UNCHANGED <<allMessages, deferred, timers>>

\* ------------------------------------------------------------ post
\* store.getNextTemporaryId(): locally unique, monotonic, negative
TemporaryId(n) == 0 - (2 * n + 1)

\* Array.prototype.filter((m) => m !== x): what Record.delete() leaves of a list
Without(s, x) == SelectSeq(s, LAMBDA id : id # x)

\* message.author.eq(this.store.self)
IsSelfAuthored(message) == message \in selfAuthored

\* this.messages.add(message): appended unless it is already in the list
AddMessage(msgs, message) ==
    IF Includes(msgs, message) THEN msgs ELSE Append(msgs, message)

\* the condition of addOrReplaceMessage:
\* tmpMsg && tmpMsg.in(this.messages) && message.author.eq(this.store.self)
Replaces(msgs, message, tmpMsg) ==
    tmpMsg # Undefined /\ Includes(msgs, tmpMsg) /\ IsSelfAuthored(message)

\* an addOrReplaceMessage that would always append
AddOrReplaceMessageAppending(msgs, message, tmpMsg) == AddMessage(msgs, message)

\* addOrReplaceMessage(message, tmpMsg)
AddOrReplaceMessage(msgs, message, tmpMsg) ==
    IF Replaces(msgs, message, tmpMsg)
    THEN Splice(msgs, IndexOf(msgs, tmpMsg), 1, <<message>>)
    ELSE AddMessage(msgs, message)

\* a confirmation that would move the read marker whatever it held
SeenAfterConfirmAlways(seen, message) == message

\* a confirmation that would delete the temporary message without having
\* moved the read marker
SeenAfterConfirmNever(seen, message) == seen

\* the read marker of post once the message is confirmed
SeenAfterConfirm(seen, message) ==
    IF hasSelfMember /\ Lt(seen, message) THEN message ELSE seen

\* a post that would leave the read marker where it was
SeenAfterPostKept(tmpMsg) == seen_message_id

\* the read marker of post once the temporary message is pushed
SeenAfterPost(tmpMsg) ==
    IF tmpMsg # Undefined /\ hasSelfMember THEN tmpMsg ELSE seen_message_id

\* post(body) from getNextTemporaryId to `await doMessagePost`
Post ==
    /\ nextTemporaryId < MaxPosts
    /\ EnvEvents < MaxEnv
    /\ LET tmpId == TemporaryId(nextTemporaryId)
           tmpMsg == IF model = "discuss.channel" THEN tmpId ELSE Undefined
       IN /\ nextTemporaryId' = nextTemporaryId + 1
          /\ posts' = posts \cup {[temporary_id |-> tmpId, tmpMsg |-> tmpMsg,
                                   state |-> "sent", id |-> Undefined,
                                   pushed |-> FALSE]}
          /\ messages' = IF tmpMsg # Undefined THEN Append(messages, tmpMsg)
                         ELSE messages
          /\ seen_message_id' = SeenAfterPost(tmpMsg)
          /\ allMessages' = IF tmpMsg # Undefined
                            THEN allMessages \cup {tmpMsg} ELSE allMessages
    /\ outcome' = NoOutcome
    /\ UNCHANGED <<pendingNewMessages, transientMessages, loadOlder, loadNewer,
                   isLoaded, status, hasLoadingFailed, calls>>
    /\ UNCHANGED_thread /\ UNCHANGED_read /\ UNCHANGED_server
    /\ UNCHANGED_deferred

\* the remote log persists the posted message under the next id
ServerPost(p) ==
    /\ p.state = "sent"
    /\ lastLogId < 2 * MaxLog
    /\ lastLogId' = lastLogId + 2
    /\ log' = log \cup {lastLogId + 2}
    /\ selfAuthored' = selfAuthored \cup {lastLogId + 2}
    /\ posts' = (posts \ {p}) \cup
                {[p EXCEPT !.state = "posted", !.id = lastLogId + 2]}
    /\ outcome' = NoOutcome
    /\ UNCHANGED <<messages, pendingNewMessages, transientMessages, loadOlder,
                   loadNewer, isLoaded, status, hasLoadingFailed, calls,
                   nextTemporaryId, seen_message_id, deletes, failures>>
    /\ UNCHANGED_thread /\ UNCHANGED_read
    /\ UNCHANGED <<allMessages, deferred, timers>>

\* the submission fails in the transport
ServerPostFail(p) ==
    /\ p.state = "sent"
    /\ EnvEvents < MaxEnv
    /\ failures' = failures + 1
    /\ posts' = (posts \ {p}) \cup {[p EXCEPT !.state = "failed"]}
    /\ outcome' = NoOutcome
    /\ UNCHANGED <<messages, pendingNewMessages, transientMessages, loadOlder,
                   loadNewer, isLoaded, status, hasLoadingFailed, calls,
                   nextTemporaryId, seen_message_id>>
    /\ UNCHANGED <<log, lastLogId, selfAuthored, deletes>>
    /\ UNCHANGED_thread /\ UNCHANGED_read
    /\ UNCHANGED <<allMessages, deferred, timers>>

\* doMessagePost returns the persisted message: post from line 1108 to its end
PostReturn(p) ==
    /\ p.state = "posted"
    /\ LET message == p.id
           replaced == AddOrReplaceMessage(messages, message, p.tmpMsg)
           seen == SeenAfterConfirm(seen_message_id, message)
       IN /\ messages' = Without(replaced, p.tmpMsg)
          /\ seen_message_id' = IF seen = p.tmpMsg THEN Undefined ELSE seen
          /\ pendingNewMessages' = Without(pendingNewMessages, p.tmpMsg)
    /\ posts' = posts \ {p}
    /\ outcome' = PostOutcome(p, "ok",
                              IF Replaces(messages, p.id, p.tmpMsg)
                              THEN "replaced" ELSE "added")
    /\ UNCHANGED <<transientMessages, loadOlder, loadNewer, isLoaded, status,
                   hasLoadingFailed, calls, nextTemporaryId>>
    /\ UNCHANGED_thread /\ UNCHANGED_read /\ UNCHANGED_server
    /\ allMessages' = (allMessages \cup {p.id}) \ {p.tmpMsg}
    /\ UNCHANGED_deferred

\* doMessagePost fails: the failure reaches the caller of post, the temporary
\* message stays as it is
PostThrow(p) ==
    /\ p.state = "failed"
    /\ posts' = posts \ {p}
    /\ outcome' = PostOutcome(p, "error", "failed")
    /\ UNCHANGED <<messages, pendingNewMessages, transientMessages, loadOlder,
                   loadNewer, isLoaded, status, hasLoadingFailed, calls,
                   nextTemporaryId, seen_message_id>>
    /\ UNCHANGED_thread /\ UNCHANGED_read /\ UNCHANGED_server
    /\ UNCHANGED <<allMessages, deferred, timers>>

\* ------------------------------------------------------------ the environment
\* the bus delivers a new message of the log: into the window when the newer
\* edge is reached, into the pending buffer while a fetch is in flight
DeliverNewMessage(message, tmpMsg) ==
    IF Includes(messages, message)
    THEN UNCHANGED <<messages, pendingNewMessages>>
    ELSE IF ~loadNewer
    THEN /\ messages' = AddOrReplaceMessage(messages, message, tmpMsg)
         /\ UNCHANGED pendingNewMessages
    ELSE IF status = "loading"
    THEN /\ pendingNewMessages' = Append(pendingNewMessages, message)
         /\ UNCHANGED messages
    ELSE UNCHANGED <<messages, pendingNewMessages>>

\* another user posts to a channel and the bus delivers the message; the bus
\* delivers in the order of the log, so not before an earlier message of self
OtherPost ==
    /\ IsChannelOrMailbox
    /\ lastLogId < 2 * MaxLog
    /\ EnvEvents < MaxEnv
    /\ \A p \in posts : p.state = "posted" => p.pushed
    /\ lastLogId' = lastLogId + 2
    /\ log' = log \cup {lastLogId + 2}
    /\ DeliverNewMessage(lastLogId + 2, Undefined)
    /\ outcome' = NoOutcome
    /\ UNCHANGED <<transientMessages, loadOlder, loadNewer, isLoaded, status,
                   hasLoadingFailed, calls, selfAuthored, deletes, failures>>
    /\ UNCHANGED_post /\ UNCHANGED_thread /\ UNCHANGED_read
    /\ allMessages' = allMessages \cup {lastLogId + 2}
    /\ UNCHANGED_deferred

\* another user posts to a thread that is not a channel and the client is not
\* told: the message is in the log only, until a fetch reads it
OtherPostUnseen ==
    /\ ~IsChannelOrMailbox
    /\ lastLogId' = lastLogId + 2
    /\ log' = log \cup {lastLogId + 2}
    /\ outcome' = NoOutcome
    /\ UNCHANGED <<messages, pendingNewMessages, transientMessages, loadOlder,
                   loadNewer, isLoaded, status, hasLoadingFailed, calls,
                   selfAuthored, deletes, failures>>
    /\ UNCHANGED_post /\ UNCHANGED_thread /\ UNCHANGED_read
    /\ UNCHANGED <<allMessages, deferred, timers>>

\* the bus delivers the posted message of self before post has returned, and
\* not before an earlier message of self
BusOwnMessage(p) ==
    /\ IsChannelOrMailbox
    /\ p.state = "posted"
    /\ ~p.pushed
    /\ \A q \in posts : (q.state = "posted" /\ ~q.pushed) => q.id >= p.id
    /\ posts' = (posts \ {p}) \cup {[p EXCEPT !.pushed = TRUE]}
    /\ DeliverNewMessage(p.id, p.tmpMsg)
    /\ outcome' = NoOutcome
    /\ UNCHANGED <<transientMessages, loadOlder, loadNewer, isLoaded, status,
                   hasLoadingFailed, calls, nextTemporaryId, seen_message_id>>
    /\ UNCHANGED_thread /\ UNCHANGED_read /\ UNCHANGED_server
    /\ allMessages' = allMessages \cup {p.id}
    /\ UNCHANGED_deferred

\* a transient message (a notice that is not in the log) is shown: its id is
\* the newest persisted id of the window plus a fraction
ReceiveTransient ==
    /\ Len(transientMessages) < MaxTransient
    /\ EnvEvents < MaxEnv
    /\ LET id == NewestPersistentMessage(messages) + 1
       IN /\ ~Includes(transientMessages, id)
          /\ messages' = Append(messages, id)
          /\ transientMessages' = Append(transientMessages, id)
          /\ allMessages' = allMessages \cup {id}
    /\ outcome' = NoOutcome
    /\ UNCHANGED <<pendingNewMessages, loadOlder, loadNewer, isLoaded, status,
                   hasLoadingFailed, calls>>
    /\ UNCHANGED_post /\ UNCHANGED_thread /\ UNCHANGED_read /\ UNCHANGED_server
    /\ UNCHANGED_deferred

\* a message is deleted from the log and, by its notification, from the store
DeleteMessage(message) ==
    /\ deletes < MaxDeletes
    /\ EnvEvents < MaxEnv
    /\ message \in log
    /\ \A p \in posts : p.id # message
    /\ deletes' = deletes + 1
    /\ log' = log \ {message}
    /\ messages' = Without(messages, message)
    /\ pendingNewMessages' = Without(pendingNewMessages, message)
    /\ seen_message_id' = IF seen_message_id = message THEN Undefined
                          ELSE seen_message_id
    /\ outcome' = NoOutcome
    /\ UNCHANGED <<transientMessages, loadOlder, loadNewer, isLoaded, status,
                   hasLoadingFailed, calls, posts, nextTemporaryId, lastLogId,
                   selfAuthored, failures>>
    /\ UNCHANGED_thread /\ UNCHANGED_read
    /\ allMessages' = allMessages \ {message}
    /\ UNCHANGED_deferred

\* ------------------------------------------------------------ markAsRead
\* newestPersistentOfAllMessage: of the messages of the thread the store
\* holds, the one with the greatest integer id
NewestPersistentOfAllMessage ==
    LET allPersistentMessages == {id \in allMessages : IsInteger(id)}
    IN IF allPersistentMessages = {} THEN Undefined
       ELSE CHOOSE m \in allPersistentMessages :
                \A n \in allPersistentMessages : n <= m

\* message.isReadBySelf: the message is the one self has acknowledged
IsReadBySelf(message) == seen_message_id = message

\* the condition under which markAsRead schedules its retry
Defers(newestPersistentMessage) ==
    newestPersistentMessage = Undefined /\ ~isLoaded

\* selfMember.seen_message_id after markAsRead
SeenAfterMark(newestPersistentMessage) ==
    IF hasSelfMember THEN newestPersistentMessage ELSE seen_message_id

\* the calls markAsRead sends: the notification of the newest message unless
\* self has read it, and a mark_all_as_read while needaction messages are left
MarkRpcs(newestPersistentMessage) ==
    (IF /\ newestPersistentMessage # Undefined
        /\ hasSelfMember
        /\ ~IsReadBySelf(newestPersistentMessage)
     THEN <<[route |-> "mark_as_read",
             last_message_id |-> newestPersistentMessage]>>
     ELSE <<>>)
    \o (IF message_needaction_counter > 0
        THEN <<[route |-> "mark_all_as_read", last_message_id |-> Undefined]>>
        ELSE <<>>)

\* what a step of markAsRead and of its calls reports; op is "markAsRead" for
\* a call of the user, "retry" for the scheduled one, "rpc" for an answer
MarkOutcome(op, result, path) ==
    [op |-> op, result |-> result, path |-> path, call |-> NoCall,
     post |-> NoPost, known |-> {}]

\* a failure handler that would swallow every code
MarkFailureResultSwallowing(code) == "ok"

\* .catch((e) => { if (e.code !== 404) { throw e; } })
MarkFailureResult(code) == IF code # 404 THEN "error" ELSE "ok"

\* the body of markAsRead
RunMarkAsRead(op) ==
    LET newestPersistentMessage == NewestPersistentOfAllMessage
    IN /\ deferred' = IF Defers(newestPersistentMessage) THEN deferred + 1
                      ELSE deferred
       /\ seen_message_id' = SeenAfterMark(newestPersistentMessage)
       /\ marks' = marks \o MarkRpcs(newestPersistentMessage)
       /\ outcome' = MarkOutcome(op, "ok", IF Defers(newestPersistentMessage)
                                           THEN "deferred" ELSE "run")
       /\ UNCHANGED <<messages, pendingNewMessages, transientMessages, loadOlder,
                      loadNewer, isLoaded, status, hasLoadingFailed, calls, posts,
                      nextTemporaryId, allMessages, message_needaction_counter>>
       /\ UNCHANGED_thread /\ UNCHANGED_server

\* markAsRead() called by the user
MarkAsRead ==
    /\ markCalls < MaxMarks
    /\ markCalls' = markCalls + 1
    /\ RunMarkAsRead("markAsRead")
    /\ UNCHANGED timers

\* the setTimeout of a retry fires: .then(() => this.markAsRead())
MarkAsReadRetry ==
    /\ timers > 0
    /\ timers' = timers - 1
    /\ RunMarkAsRead("retry")
    /\ UNCHANGED markCalls

\* what the answers of the calls of markAsRead leave alone
UNCHANGED_mark ==
    /\ UNCHANGED <<messages, pendingNewMessages, transientMessages, loadOlder,
                   loadNewer, isLoaded, status, hasLoadingFailed, calls, posts,
                   nextTemporaryId, seen_message_id, allMessages, deferred,
                   timers, markCalls>>
    /\ UNCHANGED_thread /\ UNCHANGED_server

\* the i-th call in flight is answered: after a mark_all_as_read,
\* markAllMessagesAsRead resets the counter
MarkReturn(i) ==
    /\ i \in 1..Len(marks)
    /\ marks' = Splice(marks, i - 1, 1, <<>>)
    /\ message_needaction_counter' =
          IF marks[i].route = "mark_all_as_read" THEN 0
          ELSE message_needaction_counter
    /\ outcome' = MarkOutcome("rpc", "ok", "answered")
    /\ UNCHANGED_mark

\* the i-th call in flight fails with the given code: the notification has a
\* catch that lets a 404 pass, markAllMessagesAsRead has none
MarkFail(i, code) ==
    /\ i \in 1..Len(marks)
    /\ marks' = Splice(marks, i - 1, 1, <<>>)
    /\ outcome' = IF marks[i].route = "mark_as_read"
                  THEN MarkOutcome("rpc", MarkFailureResult(code), "failed")
                  ELSE MarkOutcome("rpc", "error", "failed")
    /\ UNCHANGED message_needaction_counter
    /\ UNCHANGED_mark

\* a message that needs the action of self arrives
Needaction ==
    /\ message_needaction_counter = 0
    /\ EnvEvents < MaxEnv
    /\ message_needaction_counter' = 1
    /\ outcome' = NoOutcome
    /\ UNCHANGED marks
    /\ UNCHANGED_mark

\* the codes a failed call carries: not found, or a server error
FailureCodes == {404, 500}

\* ------------------------------------------------------------ seen by all
\* a ChannelMember: who it is (self or another user) and its seen_message_id;
\* the seen_message_id of self is the variable of that name
Member(persona, seen) == [persona |-> persona, seen_message_id |-> seen]

\* Math.min(...ids)
MinOf(ids) == CHOOSE m \in ids : \A n \in ids : m <= n

\* the compute of lastMessageSeenByAllId
LastMessageSeenByAllId(seenFeature, members) ==
    LET otherMembers == SelectSeq(members, LAMBDA m : m.persona # "self")
        otherLastSeenMessageIds ==
            {otherMembers[i].seen_message_id : i \in 1..Len(otherMembers)}
            \ {Undefined}
    IN IF ~seenFeature THEN Undefined
       ELSE IF Len(otherMembers) = 0 THEN Undefined
       ELSE IF otherLastSeenMessageIds = {} THEN Undefined
       ELSE MinOf(otherLastSeenMessageIds)

\* what the changes of the members leave alone
UNCHANGED_members ==
    /\ UNCHANGED <<model, hasId, hasSelfMember, hasSeenFeature, seen_message_id,
                   messages, pendingNewMessages, transientMessages, loadOlder,
                   loadNewer, isLoaded, status, hasLoadingFailed, calls, posts,
                   nextTemporaryId, outcome, allMessages, deferred, timers,
                   marks, markCalls, message_needaction_counter>>
    /\ UNCHANGED_server

\* the members become `members`: lastMessageSeenByAllId is computed again
SetMembers(members) ==
    /\ channelMembers' = members
    /\ lastMessageSeenByAllId' = LastMessageSeenByAllId(hasSeenFeature, members)
    /\ UNCHANGED_members

\* another member has seen the message
MemberSeen(i, message) ==
    /\ i \in 1..Len(channelMembers)
    /\ channelMembers[i].persona # "self"
    /\ SetMembers([channelMembers EXCEPT ![i].seen_message_id = message])

\* another user joins the channel: it has seen nothing yet
MemberJoins ==
    /\ Len(SelectSeq(channelMembers, LAMBDA m : m.persona # "self"))
       < MaxMembers
    /\ SetMembers(Append(channelMembers, Member("other", Undefined)))

\* another member leaves the channel
MemberLeaves(i) ==
    /\ i \in 1..Len(channelMembers)
    /\ channelMembers[i].persona # "self"
    /\ SetMembers(Splice(channelMembers, i - 1, 1, <<>>))

\* ------------------------------------------------------------ specification
ThreadKinds ==
    {<<"discuss.channel", TRUE, TRUE>>, <<"res.partner", TRUE, FALSE>>,
     <<"res.partner", FALSE, FALSE>>}

InitWindow ==
    /\ \E k \in ThreadKinds :
          /\ model = k[1]
          /\ hasId = k[2]
          /\ hasSelfMember = k[3]
    /\ seen_message_id = Undefined
    /\ messages = <<>>
    /\ pendingNewMessages = <<>>
    /\ transientMessages = <<>>
    /\ loadOlder = FALSE
    /\ loadNewer = FALSE
    /\ isLoaded = FALSE
    /\ status = "new"
    /\ hasLoadingFailed = FALSE
    /\ calls = {}
    /\ posts = {}
    /\ nextTemporaryId = 0
    /\ \E n \in {SmallLog, InitLog} :
          log = {2 * i : i \in (InitLog - n + 1)..InitLog}
    /\ lastLogId = 2 * InitLog
    /\ selfAuthored = {}
    /\ deletes = 0
    /\ failures = 0
    /\ outcome = NoOutcome
    /\ allMessages = {}
    /\ deferred = 0
    /\ timers = 0
    /\ marks = <<>>
    /\ markCalls = 0
    /\ message_needaction_counter = 0

\* a thread without seen infos: its only member, if any, is self
Init ==
    /\ InitWindow
    /\ hasSeenFeature = FALSE
    /\ channelMembers = IF hasSelfMember THEN <<Member("self", Undefined)>>
                        ELSE <<>>
    /\ lastMessageSeenByAllId = Undefined

\* the messages loadAround is asked for: a message of the log, or none; while
\* a fetch is in flight every target is rejected alike and one stands for all
LoadAroundTargets ==
    IF status = "loading" THEN {Undefined} ELSE log \cup {Undefined}

Next ==
    \/ \E epoch \in {"older", "newer"} : FetchMoreMessages(epoch)
    \/ FetchNewMessages
    \/ \E messageId \in LoadAroundTargets : LoadAround(messageId)
    \/ \E c \in calls : ServerRead(c)
    \/ \E c \in calls : ServerFail(c)
    \/ \E c \in calls : FetchReturn(c)
    \/ \E c \in calls : FetchThrow(c)
    \/ Post
    \/ \E p \in posts : ServerPost(p)
    \/ \E p \in posts : ServerPostFail(p)
    \/ \E p \in posts : PostReturn(p)
    \/ \E p \in posts : PostThrow(p)
    \/ OtherPost
    \/ (lastLogId < 2 * MaxLog /\ EnvEvents < MaxEnv /\ OtherPostUnseen)
    \/ \E p \in posts : BusOwnMessage(p)
    \/ ReceiveTransient
    \/ \E message \in log : DeleteMessage(message)

Spec == Init /\ [][Next]_vars

\* a thread that is only polled: fetchNewMessages calls while other users post
\* to the log, without transport failures
NextPoll ==
    \/ FetchNewMessages
    \/ \E c \in calls : ServerRead(c)
    \/ \E c \in calls : FetchReturn(c)
    \/ (lastLogId < 2 * PollLog /\ OtherPostUnseen)

SpecPoll == Init /\ [][NextPoll]_vars

\* a channel with a short log that is read: loads, posts, pushed messages, and
\* markAsRead with its retries and its calls
InitRead ==
    /\ Init
    /\ model = "discuss.channel"
    /\ Cardinality(log) = SmallLog

NextRead ==
    \/ FetchNewMessages
    \/ LoadAround(Undefined)
    \/ \E c \in calls : ServerRead(c)
    \/ \E c \in calls : FetchReturn(c)
    \/ Post
    \/ \E p \in posts : ServerPost(p)
    \/ \E p \in posts : PostReturn(p)
    \/ OtherPost
    \/ MarkAsRead
    \/ MarkAsReadRetry
    \/ \E i \in 1..Len(marks) : MarkReturn(i)
    \/ \E i \in 1..Len(marks) : \E code \in FailureCodes : MarkFail(i, code)
    \/ Needaction

SpecRead == InitRead /\ [][NextRead]_vars

\* the same channel without needaction messages and failing calls, under the
\* scheduling of the retry: the callback handed to setTimeout is run
NextRetry ==
    \/ LoadAround(Undefined)
    \/ \E c \in calls : ServerRead(c)
    \/ \E c \in calls : FetchReturn(c)
    \/ Post
    \/ \E p \in posts : ServerPost(p)
    \/ \E p \in posts : PostReturn(p)
    \/ OtherPost
    \/ MarkAsRead
    \/ MarkAsReadRetry
    \/ \E i \in 1..Len(marks) : MarkReturn(i)

SpecRetry == InitRead /\ [][NextRetry]_vars /\ WF_vars(MarkAsReadRetry)

\* a channel with seen infos or without, whose other members join, leave and
\* see the messages of the log
InitSeen ==
    /\ InitWindow
    /\ model = "discuss.channel"
    /\ Cardinality(log) = InitLog
    /\ hasSeenFeature \in BOOLEAN
    /\ channelMembers = <<Member("self", Undefined)>>
    /\ lastMessageSeenByAllId = Undefined

NextSeen ==
    \/ \E i \in 1..Len(channelMembers) : \E message \in log :
          MemberSeen(i, message)
    \/ MemberJoins
    \/ \E i \in 1..Len(channelMembers) : MemberLeaves(i)

SpecSeen == InitSeen /\ [][NextSeen]_vars

\* ------------------------------------------------------------ window predicates
\* the ids of the persisted messages of a window
PersistedIds(msgs) == {id \in SeqToSet(msgs) : IsInteger(id)}

\* the persisted messages of a window, in the order of the window
PersistedOf(msgs) == SelectSeq(msgs, IsInteger)

\* no message of the log lies strictly between two persisted messages of the
\* window without being in the window
Contiguous(msgs) ==
    \A m \in log : \A a, b \in PersistedIds(msgs) :
        (a < m /\ m < b) => m \in PersistedIds(msgs)

\* no id occurs twice
Unique(msgs) ==
    \A i, j \in 1..Len(msgs) : i # j => msgs[i] # msgs[j]

\* strictly increasing
Increasing(s) == \A i \in 1..(Len(s) - 1) : s[i] < s[i + 1]

\* ------------------------------------------------------------ claims
\* C1: in every reachable state no persisted message of the remote log whose id
\* lies strictly between the oldest and the newest persisted id of the window is
\* missing from the window
C1_Contiguity == Contiguous(messages)

\* C2: in every reachable state no message id occurs more than once in the window
C2_Uniqueness == Unique(messages)

\* C3: a fetchMoreMessages that returns on a contiguous window leaves a
\* contiguous window, so any sequence of older/newer fetches on a contiguous
\* window ends with every log id between its oldest and newest persisted entry
C3_MorePreservesContiguity ==
    [][\A c \in calls :
          (c.op = "fetchMoreMessages" /\ FetchReturn(c) /\ Contiguous(messages))
          => Contiguous(messages)']_vars

\* C3 witness: an older or newer page has been merged into the window, which
\* then holds more than one page and is contiguous
C3_Witness ==
    /\ outcome.op = "fetchMoreMessages"
    /\ outcome.path = "merged"
    /\ Len(outcome.call.reply) > 0
    /\ Cardinality(PersistedIds(messages)) > FETCH_LIMIT
    /\ Contiguous(messages)

\* C5: once the call that set status to "loading" has returned (no fetch
\* operation is suspended), status is no longer "loading"
C5_StatusReleased == (calls = {}) => status # "loading"

\* a call of one of the three fetch operations, whatever its arguments
FetchCallStep ==
    \/ \E epoch \in {"older", "newer"} : FetchMoreMessages(epoch)
    \/ FetchNewMessages
    \/ \E messageId \in log \cup {Undefined} : LoadAround(messageId)

\* C4: while status is "loading" a call of fetchMoreMessages, fetchNewMessages
\* or loadAround sends no read and changes nothing of the thread, and in every
\* reachable state at most one paginated read of the thread is outstanding
C4_DroppedWhileLoading ==
    /\ [](Cardinality(calls) <= 1)
    /\ [][(status = "loading" /\ FetchCallStep)
          => UNCHANGED <<messages, pendingNewMessages, transientMessages,
                         loadOlder, loadNewer, isLoaded, status,
                         hasLoadingFailed, calls>>]_vars

\* C4 witness: a read is outstanding while both boundary flags are true and the
\* thread is not loaded, so that only status rejects the three operations
C4_Witness ==
    /\ status = "loading"
    /\ Cardinality(calls) = 1
    /\ loadOlder /\ loadNewer
    /\ ~isLoaded

\* the anchor of the suspended operation c is not in the window
C6_AnchorMissing(c) ==
    \/ (c.after # Undefined /\ c.after \notin SeqToSet(messages))
    \/ (c.before # Undefined /\ c.before \notin SeqToSet(messages))

\* C6: when the read of a fetchMoreMessages or of an anchored fetchNewMessages
\* returns and the anchor is no longer in the window, the window and both
\* boundary flags stay as they are and the operation ends without an error
C6_RaceAbort ==
    [][\A c \in calls :
          (/\ c.op \in {"fetchMoreMessages", "fetchNewMessages"}
           /\ C6_AnchorMissing(c)
           /\ FetchReturn(c))
          => /\ UNCHANGED <<messages, loadOlder, loadNewer>>
             /\ outcome'.result = "ok"]_vars

\* C6 witness: a fetchMoreMessages has returned a page with messages and was
\* aborted because its anchor had left the window
C6_Witness ==
    /\ outcome.op = "fetchMoreMessages"
    /\ outcome.path = "aborted"
    /\ Len(outcome.call.reply) > 0
    /\ outcome.result = "ok"

\* the boundary flag of a direction
C7_Flag(epoch, older, newer) == IF epoch = "older" THEN older ELSE newer

\* C7: when a fetchMoreMessages is applied, a page of exactly FETCH_LIMIT
\* messages leaves the flag of its direction true, a shorter page makes it false,
\* and the flag of the other direction is unchanged
C7_BoundaryFlags ==
    [][\A c \in calls :
          (/\ c.op = "fetchMoreMessages"
           /\ ~C6_AnchorMissing(c)
           /\ FetchReturn(c))
          => /\ Len(c.reply) = FETCH_LIMIT
                => C7_Flag(c.epoch, loadOlder', loadNewer')
             /\ Len(c.reply) < FETCH_LIMIT
                => ~C7_Flag(c.epoch, loadOlder', loadNewer')
             /\ C7_Flag(c.epoch, loadNewer', loadOlder')
                = C7_Flag(c.epoch, loadNewer, loadOlder)]_vars

\* C7 witness: a short older page has been applied while the newer flag is true
C7_Witness ==
    /\ outcome.op = "fetchMoreMessages"
    /\ outcome.path = "merged"
    /\ outcome.call.epoch = "older"
    /\ Len(outcome.call.reply) < FETCH_LIMIT
    /\ ~loadOlder
    /\ loadNewer

\* the window without the temporary message and the confirmed message of p
C9_Others(msgs, p) == Without(Without(msgs, p.tmpMsg), p.id)

\* C9: when the confirmation of a post by self arrives while its temporary
\* message is in the window, the confirmed message ends at the index the
\* temporary message had, the temporary message is gone, and the other entries
\* keep their relative order
C9_ReplaceInPlace ==
    [][\A p \in posts :
          (/\ p.tmpMsg # Undefined
           /\ p.tmpMsg \in SeqToSet(messages)
           /\ p.id \in selfAuthored
           /\ PostReturn(p))
          => /\ Len(messages') = Len(messages)
             /\ messages'[IndexOf(messages, p.tmpMsg) + 1] = p.id
             /\ p.tmpMsg \notin SeqToSet(messages')
             /\ C9_Others(messages', p) = C9_Others(messages, p)]_vars

\* C9 witness: a post was confirmed in place and ended before another entry,
\* that is, messages had been appended after its temporary message
C9_Witness ==
    /\ outcome.op = "post"
    /\ outcome.path = "replaced"
    /\ \E i \in 1..(Len(messages) - 1) : messages[i] = outcome.post.id

\* C10: in every reachable state the persisted messages of the window appear in
\* strictly increasing id order
C10_PersistedIncreasing == Increasing(PersistedOf(messages))

\* the window a fetchMoreMessages would leave if it added nothing but the
\* messages of its page that the window does not hold, at the end of its epoch
C8_Expected(c, msgs) ==
    LET known == SeqToSet(messages)
        unknown == SelectSeq(Reverse(c.reply), LAMBDA id : id \notin known)
    IN IF c.epoch = "older" THEN unknown \o msgs ELSE msgs \o unknown

\* a fetchMoreMessages is applied on a page that overlaps the window
C8_OverlapApplied(c) ==
    /\ c.op = "fetchMoreMessages"
    /\ ~C6_AnchorMissing(c)
    /\ SeqToSet(c.reply) \cap SeqToSet(messages) # {}
    /\ FetchReturn(c)

C8_Drains(c) ==
    /\ c.epoch = "newer"
    /\ Len(c.reply) < FETCH_LIMIT
    /\ \E i \in 1..Len(pendingNewMessages) :
          pendingNewMessages[i] \notin SeqToSet(messages)

\* the entries of a window that are not transient messages
C8_NonTransient(msgs) == SelectSeq(msgs, LAMBDA id : ~IsTransient(id))

C11_ShortOlderPage(c) ==
    /\ c.op = "fetchMoreMessages"
    /\ c.epoch = "older"
    /\ ~C6_AnchorMissing(c)
    /\ Len(c.reply) > 0
    /\ Len(c.reply) < FETCH_LIMIT
    /\ SeqToSet(c.reply) \cap SeqToSet(messages) = {}
    /\ transientMessages = <<>>
    /\ FetchReturn(c)

\* the short older page clears loadOlder and is prepended, oldest first, before
\* the entries of the window, which keep their order
C11_Prepended(c) ==
    /\ ~loadOlder'
    /\ messages' = Reverse(c.reply) \o messages

\* C11: loadAround(undefined) whose read returns at most FETCH_LIMIT messages
\* ends with loadOlder true and loadNewer false; a following
\* fetchMoreMessages("older") answered with a short page clears loadOlder and
\* prepends the page before the existing entries
C11_Scenario ==
    [][\A c \in calls :
          /\ (c.op = "loadAround" /\ c.around = Undefined /\ FetchReturn(c))
             => (loadOlder' /\ ~loadNewer')
          /\ C11_ShortOlderPage(c) => C11_Prepended(c)]_vars

\* C11 (amended): loadAround(undefined) ends with loadNewer false and with
\* loadOlder true exactly when its read returned FETCH_LIMIT messages; a
\* following fetchMoreMessages("older") answered with a short page clears
\* loadOlder and prepends the page before the existing entries
C11_ScenarioAmended ==
    [][\A c \in calls :
          /\ (c.op = "loadAround" /\ c.around = Undefined /\ FetchReturn(c))
             => /\ loadOlder' = (Len(c.reply) = FETCH_LIMIT)
                /\ ~loadNewer'
          /\ C11_ShortOlderPage(c) => C11_Prepended(c)]_vars

\* C11 witness: after a loadAround(undefined) that filled a page, a short older
\* page has been prepended and loadOlder is false
C11_Witness ==
    /\ outcome.op = "fetchMoreMessages"
    /\ outcome.path = "merged"
    /\ outcome.call.epoch = "older"
    /\ Len(outcome.call.reply) > 0
    /\ Len(outcome.call.reply) < FETCH_LIMIT
    /\ outcome.known = {}
    /\ messages = Ascending(log)
    /\ Len(messages) > FETCH_LIMIT
    /\ ~loadOlder /\ ~loadNewer

\* C12: when a post is confirmed on a thread with a self member, the seen
\* pointer becomes the confirmed message if the pointer it held had a smaller
\* id, and a pointer it held is never moved to a message with a smaller id
C12_SeenAdvances ==
    [][\A p \in posts :
          (hasSelfMember /\ PostReturn(p))
          => /\ (seen_message_id # Undefined /\ seen_message_id < p.id)
                => seen_message_id' = p.id
             /\ seen_message_id # Undefined
                => /\ seen_message_id' # Undefined
                   /\ seen_message_id' >= seen_message_id]_vars

\* C12 witness: a post whose temporary message held the seen pointer has been
\* confirmed and the pointer is the confirmed message
C12_Witness ==
    /\ outcome.op = "post"
    /\ outcome.result = "ok"
    /\ hasSelfMember
    /\ outcome.post.tmpMsg # Undefined
    /\ outcome.post.id > 0
    /\ seen_message_id = outcome.post.id

\* C13: when the paginated read of a fetchMoreMessages, fetchNewMessages or
\* loadAround fails, hasLoadingFailed becomes true and status "ready", and neither
\* the call that sent the read nor its failure changes the window or a boundary
\* flag
C13_ReadFailure ==
    /\ [][(FetchCallStep /\ calls' # calls)
          => UNCHANGED <<messages, loadOlder, loadNewer>>]_vars
    /\ [][\A c \in calls :
             FetchThrow(c)
             => /\ hasLoadingFailed'
                /\ status' = "ready"
                /\ UNCHANGED <<messages, loadOlder, loadNewer>>]_vars

\* C13 witness: the read of a loadAround on a loaded window has failed
C13_Witness ==
    /\ outcome.op = "loadAround"
    /\ outcome.path = "failed"
    /\ hasLoadingFailed
    /\ status = "ready"
    /\ Len(messages) > 0
    /\ loadOlder

C15_OlderInLog(msgs) ==
    \E m \in log : \A a \in PersistedIds(msgs) : m < a

\* the log held, when the read of c was answered, a message that is still in
\* the log and is newer than every persisted message of the window
C15_NewerInLog(c, msgs) ==
    \E m \in log : m <= c.top /\ \A b \in PersistedIds(msgs) : m > b

\* C15: while the thread is loaded and no fetch is in flight, loadOlder false
\* means the log holds no message older than the oldest persisted message of
\* the window; and a fetch that returns and leaves the thread loaded, idle and
\* with loadNewer false leaves a window whose newest persisted message is not
\* older than any message the log held when the read was answered
C15_FlagsSound ==
    /\ []((/\ isLoaded /\ calls = {} /\ ~HasNoRoute
           /\ ~loadOlder /\ PersistedIds(messages) # {})
          => ~C15_OlderInLog(messages))
    /\ [][\A c \in calls :
             (/\ FetchReturn(c)
              /\ isLoaded' /\ calls' = {}
              /\ ~loadNewer' /\ PersistedIds(messages') # {})
             => ~C15_NewerInLog(c, messages')]_vars

\* what a guarded call has to leave alone: no read is sent
C16_Untouched ==
    UNCHANGED <<messages, loadOlder, loadNewer, pendingNewMessages, status,
                isLoaded, calls>>

\* C16: fetchMoreMessages in a direction whose flag is false, loadAround of a
\* message of the window of a loaded thread, and fetchNewMessages on a loaded
\* channel or mailbox send no read and leave the window, both flags, the
\* pending buffer, status and isLoaded unchanged
C16_GuardedNoOps ==
    [][/\ \A epoch \in {"older", "newer"} :
             (FetchMoreMessages(epoch) /\ ~C7_Flag(epoch, loadOlder, loadNewer))
             => C16_Untouched
       /\ \A messageId \in log \cup {Undefined} :
             (/\ LoadAround(messageId)
              /\ isLoaded
              /\ messageId \in SeqToSet(messages))
             => C16_Untouched
       /\ (FetchNewMessages /\ isLoaded /\ model \in {"discuss.channel", "mail.box"})
          => C16_Untouched]_vars

\* C16 witness: a loaded channel at rest with loadOlder false and a message in
\* its window, where each of the three guards applies and status is not
\* "loading"
C16_Witness ==
    /\ status = "ready"
    /\ isLoaded
    /\ model = "discuss.channel"
    /\ ~loadOlder
    /\ loadNewer
    /\ PersistedIds(messages) # {}
    /\ calls = {}

\* how many times x occurs in s
C17_Count(s, x) == Cardinality({i \in 1..Len(s) : s[i] = x})

\* ascending ids
C17_Sorted(s) == \A i \in 1..(Len(s) - 1) : s[i] <= s[i + 1]

\* C17: when a fetchMoreMessages("newer") is applied on a page shorter than
\* FETCH_LIMIT, every message of the pending buffer is in the window afterwards
\* exactly once, also one that is in the page as well, and the window is sorted
\* by ascending id (stated of its persisted messages: where a temporary or a
\* transient id sorts is not decided by this source)
C17_DrainOnce ==
    [][\A c \in calls :
          (/\ c.op = "fetchMoreMessages"
           /\ c.epoch = "newer"
           /\ ~C6_AnchorMissing(c)
           /\ Len(c.reply) < FETCH_LIMIT
           /\ FetchReturn(c))
          => /\ ~loadNewer'
             /\ \A i \in 1..Len(pendingNewMessages) :
                   C17_Count(messages', pendingNewMessages[i]) = 1
             /\ C17_Sorted(PersistedOf(messages'))]_vars

\* C18: when a fetchMoreMessages that sent a read ends, by a merge, by a race
\* abort or by a failure of the read, the pending buffer is empty
C18_PendingCleared ==
    [][\A c \in calls :
          (c.op = "fetchMoreMessages" /\ (FetchReturn(c) \/ FetchThrow(c)))
          => pendingNewMessages' = <<>>]_vars

\* the 1-based index of the first entry of msgs with an id greater than t, or
\* one past the end when there is none
C19_FirstGreater(msgs, t) ==
    IF \E i \in 1..Len(msgs) : msgs[i] > t
    THEN CHOOSE i \in 1..Len(msgs) :
            /\ msgs[i] > t
            /\ \A j \in 1..(i - 1) : msgs[j] <= t
    ELSE Len(msgs) + 1

\* t sits immediately before the first entry with a greater id, or at the end
C19_Positioned(msgs, t) ==
    /\ C19_FirstGreater(msgs, t) > 1
    /\ msgs[C19_FirstGreater(msgs, t) - 1] = t

\* C19: once a fetchMoreMessages or a loadAround has merged and run the
\* transient merge, every transient message sits immediately before the first
\* entry of the window with a greater id, or at the end when there is none, and
\* the sorted page loadAround puts into the window gives a sorted window
C19_TransientPosition ==
    [][\A c \in calls :
          (/\ c.op \in {"fetchMoreMessages", "loadAround"}
           /\ ~C6_AnchorMissing(c)
           /\ FetchReturn(c))
          => /\ \A i \in 1..Len(transientMessages) :
                   C19_Positioned(messages', transientMessages[i])
             /\ c.op = "loadAround" => C17_Sorted(messages')]_vars

\* C20: when a fetchMoreMessages has merged and run the transient merge, every
\* transient message occurs exactly once in the window, and the boundary flags
\* are those the page decided: the flag of the epoch stays true only on a full
\* page, the other flag is unchanged
C20_TransientOnce ==
    [][\A c \in calls :
          (/\ c.op = "fetchMoreMessages"
           /\ ~C6_AnchorMissing(c)
           /\ FetchReturn(c))
          => /\ \A i \in 1..Len(transientMessages) :
                   C17_Count(messages', transientMessages[i]) = 1
             /\ C7_Flag(c.epoch, loadOlder', loadNewer')
                = (/\ C7_Flag(c.epoch, loadOlder, loadNewer)
                   /\ Len(c.reply) >= FETCH_LIMIT)
             /\ C7_Flag(c.epoch, loadNewer', loadOlder')
                = C7_Flag(c.epoch, loadNewer, loadOlder)]_vars

\* the page size loadAround asks for
C21_P(c) == IF c.around = Undefined THEN FETCH_LIMIT ELSE 2 * FETCH_LIMIT

\* how many messages of the page are older, and newer, than the target; none
\* when there is no target
C21_Older(c) ==
    IF c.around = Undefined THEN 0
    ELSE Cardinality({i \in 1..Len(c.reply) : c.reply[i] < c.around})
C21_Newer(c) ==
    IF c.around = Undefined THEN 0
    ELSE Cardinality({i \in 1..Len(c.reply) : c.reply[i] > c.around})

\* C21: after a loadAround whose read returned, loadNewer is true only with a
\* target; on a page of P messages loadOlder is true and loadNewer says whether
\* there is a target; on a shorter page loadOlder is false exactly if fewer than
\* P/2 - 1 messages are older than the target, and loadNewer is false if fewer
\* than P/2 messages are newer than the target
C21_AroundFlags ==
    [][\A c \in calls :
          (c.op = "loadAround" /\ FetchReturn(c))
          => /\ loadNewer' => c.around # Undefined
             /\ Len(c.reply) = C21_P(c)
                => (loadOlder' /\ loadNewer' = (c.around # Undefined))
             /\ Len(c.reply) < C21_P(c)
                => /\ ~loadOlder' = (2 * C21_Older(c) < C21_P(c) - 2)
                   /\ (2 * C21_Newer(c) < C21_P(c)) => ~loadNewer']_vars

\* C21 witness: a loadAround with a target has returned a short page with
\* enough older messages and too few newer ones
C21_Witness ==
    /\ outcome.op = "loadAround"
    /\ outcome.path = "merged"
    /\ outcome.call.around # Undefined
    /\ Len(outcome.call.reply) > 0
    /\ Len(outcome.call.reply) < 2 * FETCH_LIMIT
    /\ loadOlder
    /\ ~loadNewer

\* C22: after a loadAround whose read returned, the window holds the page,
\* oldest first, and each transient message of the thread once, and nothing
\* else: no entry of the window it replaced, a temporary message included
C22_WindowReplaced ==
    [][\A c \in calls :
          (c.op = "loadAround" /\ FetchReturn(c))
          => /\ C8_NonTransient(messages') = Reverse(c.reply)
             /\ SeqToSet(messages')
                = SeqToSet(c.reply) \cup SeqToSet(transientMessages)
             /\ Len(messages') = Len(c.reply) + Len(transientMessages)
             /\ \A p \in posts :
                   p.tmpMsg # Undefined => p.tmpMsg \notin SeqToSet(messages')]_vars

\* C22 witness: a loadAround has put a page into the window while a post was
\* awaiting its confirmation, and the temporary message of the post is gone
C22_Witness ==
    /\ outcome.op = "loadAround"
    /\ outcome.path = "merged"
    /\ Len(outcome.call.reply) > 0
    /\ \E p \in posts :
          /\ p.tmpMsg # Undefined
          /\ p.tmpMsg \notin SeqToSet(messages)

\* C23: fetchNewMessages sets loadOlder only on an unanchored load, to TRUE
\* when the read returned exactly FETCH_LIMIT messages and to FALSE when it
\* returned another number; an anchored load leaves loadOlder as it is, and no
\* step of fetchNewMessages changes loadNewer.
C23_NewFlags ==
    [][/\ FetchNewMessages => loadNewer' = loadNewer
       /\ \A c \in calls :
             (c.op = "fetchNewMessages" /\ (FetchReturn(c) \/ FetchThrow(c)))
             => loadNewer' = loadNewer
       /\ \A c \in calls :
             (c.op = "fetchNewMessages" /\ FetchReturn(c))
             => /\ (c.after = Undefined /\ Len(c.reply) = FETCH_LIMIT)
                   => loadOlder'
                /\ (c.after = Undefined /\ Len(c.reply) # FETCH_LIMIT)
                   => ~loadOlder'
                /\ c.after # Undefined => loadOlder' = loadOlder]_vars

\* the fetched messages the claim expects fetchNewMessages to insert: those
\* whose id the window does not hold and that do not lie between the oldest
\* (first) and the newest (last) persisted message of the window
C24_Expected(c, msgs) ==
    LET persisted == PersistedOf(msgs)
    IN SelectSeq(Reverse(c.reply),
                 LAMBDA id : /\ id \notin SeqToSet(msgs)
                             /\ \/ persisted = <<>>
                                \/ id < persisted[1]
                                \/ id > persisted[Len(persisted)])

\* the index fetchNewMessages inserts at: the front, or right after the anchor
C24_Start(c, msgs) ==
    IF c.after = Undefined THEN 0 ELSE IndexOf(msgs, c.after) + 1

\* C24: a fetchNewMessages that returns while its anchor is in the window (or
\* that has no anchor) leaves the window as it was but for the fetched
\* messages that are not in the window and lie outside the range of its
\* persisted ids, inserted in one block right after the anchor (at the front
\* without anchor); no entry is removed or moved.
C24_NewInsert ==
    [][\A c \in calls :
          (/\ c.op = "fetchNewMessages"
           /\ FetchReturn(c)
           /\ (c.after = Undefined \/ Includes(messages, c.after)))
          => messages' = SubSeq(messages, 1, C24_Start(c, messages))
                         \o C24_Expected(c, messages)
                         \o SubSeq(messages, C24_Start(c, messages) + 1,
                                   Len(messages))]_vars

\* C25: when an anchored fetchNewMessages returns and finds its anchor in a
\* window that has meanwhile received a persisted message newer than the
\* anchor, the window after the merge holds every fetched message whose id is
\* greater than the anchor.
C25_NothingLost ==
    [][\A c \in calls :
          (/\ c.op = "fetchNewMessages"
           /\ FetchReturn(c)
           /\ c.after # Undefined
           /\ Includes(messages, c.after)
           /\ \E m \in PersistedIds(messages) : m > c.after)
          => \A id \in SeqToSet(c.reply) :
                id > c.after => Includes(messages', id)]_vars

\* the mark_as_read notifications among the calls in flight
C26_Notifications(rpcs) ==
    SelectSeq(rpcs, LAMBDA r : r.route = "mark_as_read")

\* C26: a markAsRead that runs while the thread is not loaded and the store
\* holds no persisted message of it only schedules its retry: the step leaves
\* seen_message_id of the self member as it was and sends no mark_as_read
\* notification.
C26_OnlyDefers ==
    [][((MarkAsRead \/ MarkAsReadRetry)
        /\ ~isLoaded
        /\ NewestPersistentOfAllMessage = Undefined)
       => /\ deferred' = deferred + 1
          /\ seen_message_id' = seen_message_id
          /\ C26_Notifications(marks') = C26_Notifications(marks)]_vars

\* the parts of C27 that do not depend on when a call defers: a load that
\* completes passes every waiting retry to its setTimeout, a retry that is due
\* runs, a retry that finds a persisted message leaves seen_message_id of the
\* self member at the newest persisted message of the thread and schedules
\* nothing, and no markAsRead schedules more than one retry or any retry once
\* the thread is loaded
C27_LoadReleases ==
    [][(~isLoaded /\ isLoaded')
       => (timers' = timers + deferred /\ deferred' = 0)]_vars
C27_RetryRuns == (timers > 0) ~> (timers = 0)
C27_RetryMarks ==
    [][(MarkAsReadRetry /\ hasSelfMember
        /\ NewestPersistentOfAllMessage # Undefined)
       => /\ seen_message_id' = NewestPersistentOfAllMessage
          /\ deferred' = deferred]_vars
C27_ScheduledOnce ==
    [][(MarkAsRead \/ MarkAsReadRetry)
       => /\ deferred' \in {deferred, deferred + 1}
          /\ isLoaded => deferred' = deferred]_vars

\* C27: every markAsRead that runs while the thread is not loaded schedules a
\* retry; the load that completes releases it, the retry runs and leaves
\* seen_message_id of the self member at the newest persisted message of the
\* thread; a retry is scheduled once per call and never once the thread is
\* loaded.
C27_RetryAfterLoad ==
    /\ [][((MarkAsRead \/ MarkAsReadRetry) /\ ~isLoaded)
          => deferred' = deferred + 1]_vars
    /\ C27_LoadReleases
    /\ C27_RetryRuns
    /\ C27_RetryMarks
    /\ C27_ScheduledOnce

\* C27 as amended: the same for a markAsRead that runs while the thread is not
\* loaded and the store holds no persisted message of it.
C27_RetryAfterLoadAmended ==
    /\ [][((MarkAsRead \/ MarkAsReadRetry) /\ ~isLoaded
           /\ NewestPersistentOfAllMessage = Undefined)
          => deferred' = deferred + 1]_vars
    /\ C27_LoadReleases
    /\ C27_RetryRuns
    /\ C27_RetryMarks
    /\ C27_ScheduledOnce

\* a retry has run on the loaded thread and left seen_message_id at the newest
\* persisted message
C27_Witness ==
    /\ outcome.op = "retry"
    /\ outcome.path = "run"
    /\ isLoaded
    /\ hasSelfMember
    /\ seen_message_id # Undefined
    /\ seen_message_id = NewestPersistentOfAllMessage

\* C28: when a mark_as_read notification fails, a failure with code 404 ends
\* without error, a failure with another code ends in an error, and either way
\* seen_message_id of the self member stays as markAsRead has set it.
C28_NotFoundSwallowed ==
    [][\A i \in 1..Len(marks) : \A code \in FailureCodes :
          (MarkFail(i, code) /\ marks[i].route = "mark_as_read")
          => /\ code = 404 => outcome'.result = "ok"
             /\ code # 404 => outcome'.result = "error"
             /\ seen_message_id' = seen_message_id]_vars

\* a notification has failed with 404 and seen_message_id still is the newest
\* persisted message markAsRead has set it to
C28_Witness ==
    /\ outcome.op = "rpc"
    /\ outcome.path = "failed"
    /\ outcome.result = "ok"
    /\ hasSelfMember
    /\ IsInteger(seen_message_id)
    /\ seen_message_id = NewestPersistentOfAllMessage

\* C29: whenever lastMessageSeenByAllId is defined, every member of the thread
\* other than self has a seen_message_id, and its id is not below
\* lastMessageSeenByAllId.
C29_SeenByAll ==
    lastMessageSeenByAllId # Undefined
    => \A i \in 1..Len(channelMembers) :
          channelMembers[i].persona # "self"
          => /\ channelMembers[i].seen_message_id # Undefined
             /\ channelMembers[i].seen_message_id >= lastMessageSeenByAllId

\* C30: while a post waits for its confirmation, the last entry of the window
\* is the temporary message of a waiting post and, when the thread has a self
\* member, seen_message_id of the self member is that message.
C30_TemporaryLast ==
    \A p \in posts :
        p.state \in {"sent", "posted"}
        => /\ Len(messages) > 0
           /\ \E q \in posts :
                 /\ q.tmpMsg # Undefined
                 /\ messages[Len(messages)] = q.tmpMsg
                 /\ hasSelfMember => seen_message_id = q.tmpMsg

\* C30 as amended: at the step at which post goes to wait for its
\* confirmation, on a channel the window is the former window with the
\* temporary message of the post appended and, when the thread has a self
\* member, seen_message_id of the self member is that message; on any other
\* thread post leaves the window and seen_message_id as they were.
C30_TemporaryLastAmended ==
    [][Post
       => IF model = "discuss.channel"
          THEN /\ messages' = Append(messages, TemporaryId(nextTemporaryId))
               /\ \E p \in posts' \ posts :
                     p.tmpMsg = TemporaryId(nextTemporaryId)
               /\ hasSelfMember
                  => seen_message_id' = TemporaryId(nextTemporaryId)
          ELSE /\ messages' = messages
               /\ seen_message_id' = seen_message_id]_vars

\* a post waits on a channel with a self member: its temporary message is the
\* last entry of a window that held messages before, and seen_message_id is it
C30_Witness ==
    \E p \in posts :
        /\ p.state = "sent"
        /\ p.tmpMsg # Undefined
        /\ Len(messages) > 1
        /\ messages[Len(messages)] = p.tmpMsg
        /\ hasSelfMember
        /\ seen_message_id = p.tmpMsg

\* C31: when a post is confirmed while seen_message_id of the self member is
\* its temporary message, the confirmation leaves seen_message_id at the
\* confirmed message, so that the deletion of the temporary message finds no
\* reference to clear; and in no state is seen_message_id a temporary message
\* that the store no longer holds.
C31_SeenBeforeDelete ==
    /\ [][\A p \in posts :
             (/\ PostReturn(p)
              /\ p.tmpMsg # Undefined
              /\ seen_message_id = p.tmpMsg)
             => /\ seen_message_id' = p.id
                /\ p.tmpMsg \notin allMessages'
                /\ ~Includes(messages', p.tmpMsg)]_vars
    /\ [](seen_message_id < 0 => seen_message_id \in allMessages)

\* the only post of the run has been confirmed: its temporary message, which
\* seen_message_id referred to, is deleted and seen_message_id is the
\* confirmed message
C31_Witness ==
    /\ outcome.op = "post"
    /\ outcome.result = "ok"
    /\ nextTemporaryId = 1
    /\ outcome.post.tmpMsg # Undefined
    /\ outcome.post.tmpMsg \notin allMessages
    /\ hasSelfMember
    /\ seen_message_id = outcome.post.id

\* C32: when a post is confirmed whose message the bus has already delivered
\* and the window already holds, the window after the confirmation holds that
\* message exactly once and does not hold the temporary message.
C32_ConfirmedOnce ==
    [][\A p \in posts :
          (/\ PostReturn(p)
           /\ p.pushed
           /\ Includes(messages, p.id))
          => /\ C17_Count(messages', p.id) = 1
             /\ ~Includes(messages', p.tmpMsg)]_vars

\* C33: when the paginated read of fetchMoreMessages, fetchNewMessages or
\* loadAround fails, the operation ends in an error for its caller.
C33_ReadFailureSurfaced ==
    [][\A c \in calls :
          FetchThrow(c)
          => /\ outcome'.op = c.op
             /\ outcome'.result = "error"]_vars

\* C33 as amended: when the paginated read fails, fetchMessages records the
\* failure in hasLoadingFailed and the operation that awaited it catches the
\* error: it ends without error for its caller.
C33_ReadFailureCaught ==
    [][\A c \in calls :
          FetchThrow(c)
          => /\ outcome'.op = c.op
             /\ outcome'.result = "ok"
             /\ hasLoadingFailed']_vars

\* the read of a fetchMoreMessages has failed and the operation has ended
\* without error, on a thread that was loaded
C33_Witness ==
    /\ outcome.op = "fetchMoreMessages"
    /\ outcome.path = "failed"
    /\ outcome.result = "ok"
    /\ hasLoadingFailed
    /\ Len(messages) > 0

\* C34: hasLoadingFailed is false at first, becomes true only at a step at
\* which a paginated read fails, and once true is true in every later state.
C34_StickyFailure ==
    /\ ~hasLoadingFailed
    /\ [][(~hasLoadingFailed /\ hasLoadingFailed')
          => \E c \in calls : FetchThrow(c)]_vars
    /\ [][hasLoadingFailed => hasLoadingFailed']_vars

\* a loadAround has succeeded after an earlier read had failed, and
\* hasLoadingFailed is still true
C34_Witness ==
    /\ hasLoadingFailed
    /\ outcome.op = "loadAround"
    /\ outcome.path = "merged"
    /\ isLoaded
    /\ Len(messages) > 0

\* C35: a loadAround whose read fails leaves the window and the boundary flags
\* as they were and leaves isLoaded false; isLoaded becomes true again only at
\* a step at which a fetch returns its page (or, on a thread without route,
\* at the call that reads nothing); and every fetch that returns its page,
\* merged or aborted by the race check, leaves isLoaded true.
C35_FailedAroundUnloads ==
    /\ [][\A c \in calls :
             (FetchThrow(c) /\ c.op = "loadAround")
             => /\ UNCHANGED <<messages, loadOlder, loadNewer>>
                /\ ~isLoaded']_vars
    /\ [][(~isLoaded /\ isLoaded')
          => \/ \E c \in calls : FetchReturn(c)
             \/ (HasNoRoute /\ FetchCallStep)]_vars
    /\ [][\A c \in calls : FetchReturn(c) => isLoaded']_vars

\* the read of a loadAround has failed on a thread that had loaded a full page:
\* the window is still there and isLoaded is false
C35_Witness ==
    /\ outcome.op = "loadAround"
    /\ outcome.path = "failed"
    /\ ~isLoaded
    /\ Len(PersistedOf(messages)) >= FETCH_LIMIT
====
